---- MODULE Spec2Model ----
(***************************************************************************)
(* Model of the directed graph engine of music_graph (src/graph.py):       *)
(* Graph storage and mutation (add_node, add_edge), the breadth-first      *)
(* reachability search path_exists and the grouping show_subgraphs.        *)
(*                                                                         *)
(* A Python dict is modelled with its insertion order where the code       *)
(* iterates it (nodes) and as a function where it only looks keys up       *)
(* (edges).  A Python list is a sequence; index 0 of the code is index 1   *)
(* here.  An Edge is modelled by its start and end; meaning and weight are *)
(* only ever read to build log messages.                                   *)
(***************************************************************************)
EXTENDS Integers, Sequences, FiniteSets, TLC

VARIABLES nodes, edges, num_nodes, num_edges, call, pc, queue, result,
          accepted, root, num_elements

vars == <<nodes, edges, num_nodes, num_edges, call, pc, queue, result,
          accepted, root, num_elements>>

graphVars == <<nodes, edges, num_nodes, num_edges>>

\* the fields of a Tree object
treeVars == <<root, num_elements>>

(***************************************************************************)
(* Bounds of the model.                                                    *)
(***************************************************************************)
\* node names are 0 .. MaxNodes-1; also the longest node list given to Graph()
MaxNodes == 3
\* accepted edge inserts, and the longest edge list given to Graph()
MaxEdges == 2

Names == 0 .. (MaxNodes - 1)

\* Node objects a caller may hold for one name: "o1" is the object first
\* inserted under the name, "o2" another Node object with the same name
NodeObjs == {"o1", "o2"}

\* accepted node inserts (an allow_update overwrite is one more than MaxNodes)
MaxNumNodes == MaxNodes + 1

\* tree values are 0 .. MaxValue
MaxValue == 2
\* height of the trees a Tree is constructed from, and of the trees inserted into
MaxHeight == 2

TreeValues == 0 .. MaxValue

(***************************************************************************)
(* Node and Edge                                                           *)
(***************************************************************************)
Node(name, obj) == [name |-> name, obj |-> obj]

Edge(start, end) == [start |-> start, end |-> end]

(***************************************************************************)
(* Sequence helpers for Python list and dict operations.                   *)
(***************************************************************************)
Range(s) == {s[i] : i \in 1 .. Len(s)}

\* list.reverse()
Reverse(s) == [i \in 1 .. Len(s) |-> s[Len(s) + 1 - i]]

\* self.nodes.keys()
Keys(ns) == {ns[i].name : i \in 1 .. Len(ns)}

\* self.nodes.keys() in iteration (insertion) order
KeySeq(ns) == [i \in 1 .. Len(ns) |-> ns[i].name]

\* self.nodes[name]
Lookup(ns, name) == ns[CHOOSE i \in 1 .. Len(ns) : ns[i].name = name]

\* self.nodes.update({node.name : node}): an existing key keeps its position
DictUpdate(ns, node) ==
    IF node.name \in Keys(ns)
    THEN [i \in 1 .. Len(ns) |-> IF ns[i].name = node.name THEN node ELSE ns[i]]
    ELSE Append(ns, node)

\* self.edges.get(key, [])
Get(es, key) == IF key \in DOMAIN es THEN es[key] ELSE <<>>

(***************************************************************************)
(* Graph storage and mutation.  A graph value G is the record of the four  *)
(* fields of a Graph object.                                               *)
(***************************************************************************)
EmptyGraph == [nodes |-> <<>>, edges |-> <<>>, num_nodes |-> 0, num_edges |-> 0]

\* AddNode with the test for an existing name lost: every call inserts
AddNode_AlwaysInserts(G, node, allow_update) ==
    [G EXCEPT !.nodes = DictUpdate(G.nodes, node),
              !.num_nodes = G.num_nodes + 1]

\* AddNode counting the insert it rejects
AddNode_CountsRejected(G, node, allow_update) ==
    IF node.name \in Keys(G.nodes) /\ ~allow_update
    THEN [G EXCEPT !.num_nodes = G.num_nodes + 1]
    ELSE [G EXCEPT !.nodes = DictUpdate(G.nodes, node),
                   !.num_nodes = G.num_nodes + 1]

\* AddNode counting only the names it adds, not the overwrites
AddNode_OverwriteNotCounted(G, node, allow_update) ==
    IF node.name \in Keys(G.nodes) /\ ~allow_update
    THEN G
    ELSE [G EXCEPT !.nodes = DictUpdate(G.nodes, node),
                   !.num_nodes = IF node.name \in Keys(G.nodes)
                                 THEN G.num_nodes
                                 ELSE G.num_nodes + 1]

AddNode(G, node, allow_update) ==
    IF node.name \in Keys(G.nodes) /\ ~allow_update
    THEN G
    ELSE [G EXCEPT !.nodes = DictUpdate(G.nodes, node),
                   !.num_nodes = G.num_nodes + 1]

\* AddEdge with the test of edge.end lost
AddEdge_NoEndCheck(G, edge) ==
    IF edge.start \notin Keys(G.nodes)
    THEN G
    ELSE LET curr == Append(Get(G.edges, edge.start), edge)
         IN [G EXCEPT !.edges = [k \in (DOMAIN G.edges) \cup {edge.start} |->
                                     IF k = edge.start THEN curr ELSE G.edges[k]],
                      !.num_edges = G.num_edges + 1]

\* AddEdge counting the edge it rejects for its unknown end
AddEdge_CountsRejected(G, edge) ==
    IF edge.start \notin Keys(G.nodes)
    THEN G
    ELSE IF edge.end \notin Keys(G.nodes)
    THEN [G EXCEPT !.num_edges = G.num_edges + 1]
    ELSE LET curr == Append(Get(G.edges, edge.start), edge)
         IN [G EXCEPT !.edges = [k \in (DOMAIN G.edges) \cup {edge.start} |->
                                     IF k = edge.start THEN curr ELSE G.edges[k]],
                      !.num_edges = G.num_edges + 1]

AddEdge(G, edge) ==
    IF edge.start \notin Keys(G.nodes)
    THEN G
    ELSE IF edge.end \notin Keys(G.nodes)
    THEN G
    ELSE LET curr == Append(Get(G.edges, edge.start), edge)
         IN [G EXCEPT !.edges = [k \in (DOMAIN G.edges) \cup {edge.start} |->
                                     IF k = edge.start THEN curr ELSE G.edges[k]],
                      !.num_edges = G.num_edges + 1]

\* add_node takes its warning branch: the insert is rejected
NodeRejected(G, node, allow_update) ==
    node.name \in Keys(G.nodes) /\ ~allow_update

\* add_edge takes one of its two warning branches: the insert is rejected
EdgeRejected(G, edge) ==
    edge.start \notin Keys(G.nodes) \/ edge.end \notin Keys(G.nodes)

RECURSIVE AddNodes(_, _, _)
AddNodes(G, ns, i) ==
    IF i > Len(ns) THEN G ELSE AddNodes(AddNode(G, ns[i], FALSE), ns, i + 1)

RECURSIVE AddEdges(_, _, _)
AddEdges(G, es, i) ==
    IF i > Len(es) THEN G ELSE AddEdges(AddEdge(G, es[i]), es, i + 1)

\* Graph(nodes, edges)
GraphInit(ns, es) == AddEdges(AddNodes(EmptyGraph, ns, 1), es, 1)

\* the Graph object of the current state
Graph == [nodes |-> nodes, edges |-> edges,
          num_nodes |-> num_nodes, num_edges |-> num_edges]

(***************************************************************************)
(* Return values.  path_exists returns False or a list; show_subgraphs a   *)
(* list of lists.                                                          *)
(***************************************************************************)
NoValue == [kind |-> "None"]

PyFalse == [kind |-> "False"]

PyList(p) == [kind |-> "list", items |-> p]

\* truth value of a Python value in `if` and `assert`
Truthy(v) == v.kind = "list" /\ Len(v.items) > 0

(***************************************************************************)
(* path_exists(start, end)                                                 *)
(***************************************************************************)
\* options = [e.end for e in self.edges.get(curr[0], [])]
Options(es, n) ==
    LET bucket == Get(es, n)
    IN [i \in 1 .. Len(bucket) |-> bucket[i].end]

\* The for loop over options, from option i on.  The result says whether the
\* loop returned (and what), and the worklist it leaves otherwise.
RECURSIVE ForOptions(_, _, _, _, _)
\* ForOptions with the cycle guard tested before the comparison with end
ForOptions_GuardFirst(curr, options, i, end, q) ==
    IF i > Len(options)
    THEN [returned |-> FALSE, value |-> NoValue, queue |-> q]
    ELSE LET n == options[i]
         IN IF n \in Range(curr)
            THEN ForOptions(curr, options, i + 1, end, q)
            ELSE IF n = end
            THEN [returned |-> TRUE, value |-> PyList(Reverse(curr)), queue |-> q]
            ELSE ForOptions(curr, options, i + 1, end, Append(q, <<n>> \o curr))

\* ForOptions pushing [n] instead of [n] + path: the cycle guard sees one node
ForOptions_ForgetsPath(curr, options, i, end, q) ==
    IF i > Len(options)
    THEN [returned |-> FALSE, value |-> NoValue, queue |-> q]
    ELSE LET n == options[i]
         IN IF n = end
            THEN [returned |-> TRUE, value |-> PyList(Reverse(curr)), queue |-> q]
            ELSE IF n \notin Range(curr)
            THEN ForOptions(curr, options, i + 1, end, Append(q, <<n>>))
            ELSE ForOptions(curr, options, i + 1, end, q)

\* ForOptions pushing path + [n]: the new node goes to the back of the path
ForOptions_PushesBack(curr, options, i, end, q) ==
    IF i > Len(options)
    THEN [returned |-> FALSE, value |-> NoValue, queue |-> q]
    ELSE LET n == options[i]
         IN IF n = end
            THEN [returned |-> TRUE, value |-> PyList(Reverse(curr)), queue |-> q]
            ELSE IF n \notin Range(curr)
            THEN ForOptions(curr, options, i + 1, end, Append(q, curr \o <<n>>))
            ELSE ForOptions(curr, options, i + 1, end, q)

\* ForOptions returning curr without curr.reverse()
ForOptions_NoReverse(curr, options, i, end, q) ==
    IF i > Len(options)
    THEN [returned |-> FALSE, value |-> NoValue, queue |-> q]
    ELSE LET n == options[i]
         IN IF n = end
            THEN [returned |-> TRUE, value |-> PyList(curr), queue |-> q]
            ELSE IF n \notin Range(curr)
            THEN ForOptions(curr, options, i + 1, end, Append(q, <<n>> \o curr))
            ELSE ForOptions(curr, options, i + 1, end, q)

ForOptions(curr, options, i, end, q) ==
    IF i > Len(options)
    THEN [returned |-> FALSE, value |-> NoValue, queue |-> q]
    ELSE LET n == options[i]
         IN IF n = end
            THEN [returned |-> TRUE, value |-> PyList(Reverse(curr)), queue |-> q]
            ELSE IF n \notin Range(curr)
            THEN ForOptions(curr, options, i + 1, end, Append(q, <<n>> \o curr))
            ELSE ForOptions(curr, options, i + 1, end, q)

\* WhileBody comparing the popped node itself with end before expanding it
WhileBody_TestsPopped(es, q, end) ==
    LET curr == Head(q)
    IN IF curr[1] = end
       THEN [returned |-> TRUE, value |-> PyList(Reverse(curr)), queue |-> Tail(q)]
       ELSE ForOptions(curr, Options(es, curr[1]), 1, end, Tail(q))

\* WhileBody serving the worklist last-in first-out: curr = queue[-1]
WhileBody_Lifo(es, q, end) ==
    LET curr == q[Len(q)]
    IN ForOptions(curr, Options(es, curr[1]), 1, end, SubSeq(q, 1, Len(q) - 1))

\* One iteration of the while loop on a non-empty worklist.
WhileBody(es, q, end) ==
    LET curr == Head(q)
    IN ForOptions(curr, Options(es, curr[1]), 1, end, Tail(q))

\* The while loop from worklist q to the return value.
RECURSIVE WhileLoop(_, _, _)
WhileLoop(es, q, end) ==
    IF Len(q) > 0
    THEN LET r == WhileBody(es, q, end)
         IN IF r.returned THEN r.value ELSE WhileLoop(es, r.queue, end)
    ELSE PyFalse

\* self.path_exists(start, end), as show_subgraphs calls it
PathExists(es, start, end) == WhileLoop(es, <<<<start>>>>, end)

(***************************************************************************)
(* show_subgraphs()                                                        *)
(***************************************************************************)
\* The loop over the members n2 of group g, from member j on: found_group.
RECURSIVE ForMembers(_, _, _, _)
\* ForMembers testing `is not None` instead of the truth value of the result
ForMembers_NotNone(es, n1, g, j) ==
    IF j > Len(g)
    THEN FALSE
    ELSE IF PathExists(es, n1, g[j]) # NoValue
    THEN TRUE
    ELSE IF PathExists(es, g[j], n1) # NoValue
    THEN TRUE
    ELSE ForMembers(es, n1, g, j + 1)

ForMembers(es, n1, g, j) ==
    IF j > Len(g)
    THEN FALSE
    ELSE IF Truthy(PathExists(es, n1, g[j]))
    THEN TRUE
    ELSE IF Truthy(PathExists(es, g[j], n1))
    THEN TRUE
    ELSE ForMembers(es, n1, g, j + 1)

\* The loop over the groups of ans, from group i on, and the trailing
\* `if not found_group`: ans after node n1 has been placed.
RECURSIVE ForGroups(_, _, _, _)
\* ForGroups without the break after g.append: found_group stays set, and
\* n1 is appended to every later group as well
ForGroups_NoBreak(es, n1, ans, i) ==
    IF i > Len(ans)
    THEN Append(ans, <<n1>>)
    ELSE IF ForMembers(es, n1, ans[i], 1)
    THEN [j \in 1 .. Len(ans) |-> IF j >= i THEN Append(ans[j], n1) ELSE ans[j]]
    ELSE ForGroups(es, n1, ans, i + 1)

ForGroups(es, n1, ans, i) ==
    IF i > Len(ans)
    THEN Append(ans, <<n1>>)
    ELSE IF ForMembers(es, n1, ans[i], 1)
    THEN [ans EXCEPT ![i] = Append(ans[i], n1)]
    ELSE ForGroups(es, n1, ans, i + 1)

\* The loop over all_nodes, from node k on.
RECURSIVE ForNodes(_, _, _, _)
ForNodes(es, all_nodes, k, ans) ==
    IF k > Len(all_nodes)
    THEN ans
    ELSE ForNodes(es, all_nodes, k + 1, ForGroups(es, all_nodes[k].name, ans, 1))

ShowSubgraphs(G) == ForNodes(G.edges, G.nodes, 1, <<>>)

(***************************************************************************)
(* Binary trees (src/tree.py).  A tree is a Leaf or a Branch record.  A    *)
(* value that may be None (the value of a Bud, the min and max of is_bst)  *)
(* is the empty sequence for None and <<v>> for the number v.              *)
(***************************************************************************)
None == <<>>

Some(v) == <<v>>

\* Leaf(val)
Leaf(val) == [kind |-> "Leaf", value |-> Some(val), has_value |-> TRUE]

\* Leaf.Bud()
Bud == [kind |-> "Leaf", value |-> None, has_value |-> FALSE]

\* Branch(val, left, right)
Branch(val, left, right) ==
    [kind |-> "Branch", value |-> val, left |-> left, right |-> right]

\* `not x` for x None or a number
Falsy(x) == x = None \/ x[1] = 0

RECURSIVE Size(_)
Size(t) ==
    IF t.kind = "Leaf"
    THEN IF t.has_value THEN 1 ELSE 0
    ELSE 1 + Size(t.left) + Size(t.right)

RECURSIVE Height(_)
Height(t) ==
    IF t.kind = "Leaf"
    THEN Size(t)
    ELSE LET h_left == Height(t.left)
             h_right == Height(t.right)
         IN 1 + (IF h_left >= h_right THEN h_left ELSE h_right)

RECURSIVE ToList(_)
ToList(t) ==
    IF t.kind = "Leaf"
    THEN IF t.has_value THEN <<t.value[1]>> ELSE <<>>
    ELSE ToList(t.left) \o <<t.value>> \o ToList(t.right)

\* Leaf.is_bst(min, max)
LeafIsBst(t, min, max) ==
    IF ~t.has_value
    THEN TRUE
    ELSE IF (Falsy(min) \/ t.value[1] >= min[1]) /\ (Falsy(max) \/ t.value[1] <= max[1])
    THEN TRUE
    ELSE FALSE

\* is_bst(min, max) of a Leaf or a Branch; the Branch case is Branch.is_bst
RECURSIVE IsBst(_, _, _)
IsBst(t, min, max) ==
    IF t.kind = "Leaf"
    THEN LeafIsBst(t, min, max)
    ELSE IF ~Falsy(min) /\ t.value <= min[1]
    THEN FALSE
    ELSE IF ~Falsy(max) /\ t.value >= max[1]
    THEN FALSE
    ELSE LET ans_l == IsBst(t.left, min, Some(t.value))
             ans_r == IsBst(t.right, Some(t.value), max)
         IN ans_l /\ ans_r

\* Leaf.insert(value)
LeafInsert(t, value) ==
    IF ~t.has_value
    THEN Leaf(value)
    ELSE IF t.value[1] < value
    THEN Branch(value, Leaf(t.value[1]), Bud)
    ELSE Branch(value, Bud, Leaf(t.value[1]))

\* insert(value) of a Leaf or a Branch; the Branch case is Branch.insert
RECURSIVE Insert(_, _)
Insert(t, value) ==
    IF t.kind = "Leaf"
    THEN LeafInsert(t, value)
    ELSE IF value < t.value
    THEN [t EXCEPT !.left = Insert(t.left, value)]
    ELSE [t EXCEPT !.right = Insert(t.right, value)]

\* Tree(head): a Tree object T is the record of its fields
TreeOf(head) == [root |-> head, num_elements |-> Size(head)]

\* Tree.is_bst()
TreeIsBst(T) == IsBst(T.root, None, None)

\* Tree.insert(value)
TreeInsert(T, value) ==
    [root |-> Insert(T.root, value), num_elements |-> T.num_elements + 1]

\* the loop of build_bst over values, from value i on
RECURSIVE BuildLoop(_, _, _)
BuildLoop(values, i, T) ==
    IF i > Len(values)
    THEN T
    ELSE BuildLoop(values, i + 1,
                   [root |-> Insert(T.root, values[i]),
                    num_elements |-> T.num_elements + 1])

\* BinarySearchTree.build_bst()
BuildBst(T) ==
    IF ~TreeIsBst(T)
    THEN BuildLoop(ToList(T.root), 1, [root |-> Bud, num_elements |-> 0])
    ELSE T

\* BinarySearchTree(head): the object built, and whether its assert fails
BinarySearchTree(head) ==
    LET T == BuildBst(TreeOf(head))
    IN [tree |-> T, raised |-> ~TreeIsBst(T)]

\* a bool returned
PyBool(b) == [kind |-> "bool", value |-> b]

\* the AssertionError that ends the program
AssertionError == [kind |-> "AssertionError"]

(***************************************************************************)
(* State machine.  call is the query in progress or last completed, with   *)
(* its arguments; pc is "idle" before any query, "loop" at the head of the *)
(* while loop of path_exists, "done" once a query has returned; queue is   *)
(* the worklist of path_exists; result the value the query returned.       *)
(***************************************************************************)
SeqsUpTo(S, n) == UNION {[1 .. k -> S] : k \in 0 .. n}

\* lists without a repeated element
DistinctSeqsUpTo(S, n) ==
    {s \in SeqsUpTo(S, n) : \A i, j \in 1 .. Len(s) : s[i] = s[j] => i = j}

NodeArgs == {Node(name, obj) : name \in Names, obj \in NodeObjs}

EdgeArgs == {Edge(s, e) : s \in Names, e \in Names}

NoCall == [op |-> "none"]

\* accepted counts the calls made since the graph was constructed that were
\* not rejected: add_node calls, add_edge calls, and the add_node calls among
\* them whose name was already stored (overwrites)
NoCalls == [nodes |-> 0, edges |-> 0, overwrites |-> 0]

Caller(G) ==
    /\ nodes = G.nodes
    /\ edges = G.edges
    /\ num_nodes = G.num_nodes
    /\ num_edges = G.num_edges
    /\ call = NoCall
    /\ pc = "idle"
    /\ queue = <<>>
    /\ result = NoValue
    /\ accepted = NoCalls
    /\ root = Bud
    /\ num_elements = 0

\* g = Graph(): the default arguments are empty lists
Init == \E G \in {GraphInit(<<>>, <<>>)} : Caller(G)

\* g = Graph(nodes=[Node(i) for i in range(k)], edges=[Edge(..), ..])
PathInit ==
    \E k \in 0 .. MaxNodes, es \in SeqsUpTo(EdgeArgs, MaxEdges) :
        \E G \in {GraphInit([i \in 1 .. k |-> Node(i - 1, "o1")], es)} : Caller(G)

\* the two edges of a cycle through the first two names: with them a graph has
\* a path of two edges from 0 back to 0, and MaxEdges further edges can make a
\* longer path between the same names
Cycle == <<Edge(0, 1), Edge(1, 0)>>

\* g = Graph(nodes=[Node(i) for i in range(MaxNodes)],
\*           edges=es[:k] + [Edge(0, 1), Edge(1, 0)] + es[k:])
DetourInit ==
    \E es \in SeqsUpTo(EdgeArgs, MaxEdges) :
        \E k \in 0 .. Len(es) :
            \E G \in {GraphInit([i \in 1 .. MaxNodes |-> Node(i - 1, "o1")],
                                SubSeq(es, 1, k) \o Cycle \o SubSeq(es, k + 1, Len(es)))} :
                Caller(G)

\* g = Graph(nodes=[Node(..), ..], edges=[Edge(..), ..]), the names in any order
SubgraphInit ==
    \E names \in DistinctSeqsUpTo(Names, MaxNodes), es \in SeqsUpTo(EdgeArgs, MaxEdges) :
        \E G \in {GraphInit([i \in 1 .. Len(names) |-> Node(names[i], "o1")], es)} :
            Caller(G)

add_node(node, allow_update) ==
    /\ pc = "idle"
    /\ node.name \notin Keys(nodes) => node.obj = "o1"
    /\ \E G \in {AddNode(Graph, node, allow_update)} :
        /\ G.num_nodes <= MaxNumNodes
        /\ nodes' = G.nodes
        /\ edges' = G.edges
        /\ num_nodes' = G.num_nodes
        /\ num_edges' = G.num_edges
    /\ accepted' =
        IF NodeRejected(Graph, node, allow_update)
        THEN accepted
        ELSE [accepted EXCEPT
                !.nodes = accepted.nodes + 1,
                !.overwrites = IF node.name \in Keys(nodes)
                               THEN accepted.overwrites + 1
                               ELSE accepted.overwrites]
    /\ UNCHANGED <<call, pc, queue, result, treeVars>>

add_edge(edge) ==
    /\ pc = "idle"
    /\ \E G \in {AddEdge(Graph, edge)} :
        /\ G.num_edges <= MaxEdges
        /\ nodes' = G.nodes
        /\ edges' = G.edges
        /\ num_nodes' = G.num_nodes
        /\ num_edges' = G.num_edges
    /\ accepted' =
        IF EdgeRejected(Graph, edge)
        THEN accepted
        ELSE [accepted EXCEPT !.edges = accepted.edges + 1]
    /\ UNCHANGED <<call, pc, queue, result, treeVars>>

\* entry of path_exists: queue = [[start]]
path_exists_call(start, end) ==
    /\ pc \in {"idle", "done"}
    /\ call' = [op |-> "path_exists", start |-> start, end |-> end]
    /\ queue' = <<<<start>>>>
    /\ pc' = "loop"
    /\ result' = NoValue
    /\ UNCHANGED <<graphVars, accepted, treeVars>>

\* one iteration of `while len(queue) > 0`, which may return the path
path_exists_iter ==
    /\ pc = "loop"
    /\ Len(queue) > 0
    /\ LET r == WhileBody(edges, queue, call.end)
       IN IF r.returned
          THEN /\ result' = r.value
               /\ queue' = <<>>
               /\ pc' = "done"
          ELSE /\ queue' = r.queue
               /\ UNCHANGED <<pc, result>>
    /\ UNCHANGED <<graphVars, call, accepted, treeVars>>

\* the while loop ends on an empty worklist: return False
path_exists_fail ==
    /\ pc = "loop"
    /\ Len(queue) = 0
    /\ result' = PyFalse
    /\ pc' = "done"
    /\ UNCHANGED <<graphVars, call, queue, accepted, treeVars>>

show_subgraphs ==
    /\ pc = "idle"
    /\ call' = [op |-> "show_subgraphs"]
    /\ result' = PyList(ShowSubgraphs(Graph))
    /\ pc' = "done"
    /\ UNCHANGED <<graphVars, queue, accepted, treeVars>>

\* the trees of height h or less over TreeValues
RECURSIVE Trees(_)
Trees(h) ==
    IF h = 0
    THEN {Bud}
    ELSE IF h = 1
    THEN {Bud} \cup {Leaf(v) : v \in TreeValues}
    ELSE Trees(h - 1)
            \cup {Branch(v, l, r) : v \in TreeValues, l \in Trees(h - 1), r \in Trees(h - 1)}

\* t = Tree(head)
TreeInit ==
    \E head \in Trees(MaxHeight) :
        \E G \in {GraphInit(<<>>, <<>>)}, T \in {TreeOf(head)} :
            /\ nodes = G.nodes
            /\ edges = G.edges
            /\ num_nodes = G.num_nodes
            /\ num_edges = G.num_edges
            /\ call = NoCall
            /\ pc = "idle"
            /\ queue = <<>>
            /\ result = NoValue
            /\ accepted = NoCalls
            /\ root = T.root
            /\ num_elements = T.num_elements

\* the Tree object of the current state
Tree == [root |-> root, num_elements |-> num_elements]

\* t.insert(value); call.self is the root the call found
tree_insert(value) ==
    /\ pc \in {"idle", "done"}
    /\ Height(root) <= MaxHeight
    /\ call' = [op |-> "insert", self |-> root, value |-> value]
    /\ \E T \in {TreeInsert(Tree, value)} :
        /\ root' = T.root
        /\ num_elements' = T.num_elements
    /\ result' = NoValue
    /\ pc' = "done"
    /\ UNCHANGED <<graphVars, queue, accepted>>

\* t.is_bst()
tree_is_bst ==
    /\ pc \in {"idle", "done"}
    /\ call' = [op |-> "is_bst"]
    /\ result' = PyBool(TreeIsBst(Tree))
    /\ pc' = "done"
    /\ UNCHANGED <<graphVars, queue, accepted, treeVars>>

\* t = BinarySearchTree(t.root), as t.to_bst() builds it; call.head is the
\* tree given.  A failing assert ends the program: pc = "raised".
to_bst ==
    /\ pc \in {"idle", "done"}
    /\ call' = [op |-> "BinarySearchTree", head |-> root]
    /\ \E B \in {BinarySearchTree(root)} :
        /\ root' = B.tree.root
        /\ num_elements' = B.tree.num_elements
        /\ pc' = IF B.raised THEN "raised" ELSE "done"
        /\ result' = IF B.raised THEN AssertionError ELSE NoValue
    /\ UNCHANGED <<graphVars, queue, accepted>>

\* Building a graph: any sequence of add_node and add_edge calls.
Next ==
    \/ \E node \in NodeArgs, allow_update \in BOOLEAN : add_node(node, allow_update)
    \/ \E edge \in EdgeArgs : add_edge(edge)

Spec == Init /\ [][Next]_vars

\* path_exists calls on a constructed graph.
PathNext ==
    \/ \E start \in Names, end \in Names : path_exists_call(start, end)
    \/ path_exists_iter
    \/ path_exists_fail

PathSpec == PathInit /\ [][PathNext]_vars

\* a running call is not suspended: the loop of path_exists keeps stepping
FairPathSpec == PathSpec /\ WF_vars(path_exists_iter) /\ WF_vars(path_exists_fail)

\* path_exists calls on a graph that has room for detours.
DetourSpec == DetourInit /\ [][PathNext]_vars

\* show_subgraphs on a constructed graph, for every node insertion order.
SubgraphNext == show_subgraphs

SubgraphSpec == SubgraphInit /\ [][SubgraphNext]_vars

\* Tree operations on a constructed tree.
TreeNext ==
    \/ \E value \in TreeValues : tree_insert(value)
    \/ tree_is_bst
    \/ to_bst

TreeSpec == TreeInit /\ [][TreeNext]_vars

(***************************************************************************)
(* Reference notions the properties are stated with.                       *)
(***************************************************************************)
\* every Edge stored in some bucket
StoredEdges == UNION {Range(edges[k]) : k \in DOMAIN edges}

\* the names one stored edge leads to from a name of S
Succ(S) == {e.end : e \in {d \in StoredEdges : d.start \in S}}

RECURSIVE Closure(_)
Closure(S) == IF Succ(S) \subseteq S THEN S ELSE Closure(S \cup Succ(S))

\* a directed path of at least one stored edge leads from a to b
Reachable(a, b) == b \in Closure(Succ({a}))

\* the names one stored edge joins to a name of S, read in either direction
Adjacent(S) ==
    {e.end : e \in {d \in StoredEdges : d.start \in S}}
        \cup {e.start : e \in {d \in StoredEdges : d.end \in S}}

RECURSIVE UndirectedClosure(_)
UndirectedClosure(S) ==
    IF Adjacent(S) \subseteq S THEN S ELSE UndirectedClosure(S \cup Adjacent(S))

\* a and b are connected in the underlying undirected graph
WeaklyConnected(a, b) == b \in UndirectedClosure({a})

\* a call of path_exists has returned
PathDone == pc = "done" /\ call.op = "path_exists"

\* a call of show_subgraphs has returned
SubgraphsDone == pc = "done" /\ call.op = "show_subgraphs"

\* show_subgraphs placed a and b in one group
SameGroup(a, b) ==
    \E i \in 1 .. Len(result.items) :
        a \in Range(result.items[i]) /\ b \in Range(result.items[i])

\* the places of the returned groups that hold name n
Places(n) ==
    {p \in UNION {{<<i, j>> : j \in 1 .. Len(result.items[i])} : i \in 1 .. Len(result.items)} :
        result.items[p[1]][p[2]] = n}

(***************************************************************************)
(* Properties of path_exists, under PathSpec.                              *)
(***************************************************************************)
\* C1: path_exists(start, end) returns a list if and only if a directed path
\* of at least one stored edge leads from start to end, and False otherwise.
C1_PathIffReachable ==
    PathDone =>
        /\ result.kind \in {"list", "False"}
        /\ result.kind = "list" <=> Reachable(call.start, call.end)

\* a path through at least one intermediate node has been found
C1_Witness == PathDone /\ result.kind = "list" /\ Len(result.items) >= 2

\* C2: a returned path starts with start and ends with end.
C2_PathEndsWithEnd ==
    PathDone /\ result.kind = "list" =>
        /\ Len(result.items) >= 1
        /\ result.items[1] = call.start
        /\ result.items[Len(result.items)] = call.end

\* C6: every call of path_exists returns.
C6_PathExistsTerminates == (pc = "loop") ~> (pc = "done")

\* a search has ended in failure although a cycle leads through start
C6_Witness ==
    PathDone /\ result = PyFalse /\ Reachable(call.start, call.start)

\* C7: path_exists(a, a) returns False unless a directed path of at least one
\* stored edge leads from a back to a.
C7_NoImplicitSelfReachability ==
    PathDone /\ call.start = call.end /\ ~Reachable(call.start, call.start)
        => result = PyFalse

\* path_exists(a, a) has failed for a node that has outgoing edges
C7_Witness ==
    /\ PathDone
    /\ call.start = call.end
    /\ Get(edges, call.start) # <<>>
    /\ result = PyFalse

(***************************************************************************)
(* Properties of show_subgraphs, under SubgraphSpec.                       *)
(***************************************************************************)
\* C3: two stored names are in one returned group if and only if they are
\* connected in the underlying undirected graph.
C3_GroupsAreWeakComponents ==
    SubgraphsDone =>
        \A a, b \in Keys(nodes) : SameGroup(a, b) <=> WeaklyConnected(a, b)

\* C4: if path_exists(a, b) or path_exists(b, a) succeeds, a and b are in
\* one returned group.
C4_PathImpliesSameGroup ==
    SubgraphsDone =>
        \A a, b \in Names :
            Truthy(PathExists(edges, a, b)) \/ Truthy(PathExists(edges, b, a))
                => SameGroup(a, b)

\* C5: the returned groups partition the stored names: every stored name is
\* at exactly one place of exactly one group, no group is empty, and no group
\* holds a name that is not stored.
C5_GroupsPartitionNodes ==
    SubgraphsDone =>
        /\ \A n \in Keys(nodes) : Cardinality(Places(n)) = 1
        /\ \A i \in 1 .. Len(result.items) :
            /\ Len(result.items[i]) > 0
            /\ Range(result.items[i]) \subseteq Keys(nodes)

\* several groups have been returned, one of them with several members
C5_Witness ==
    /\ SubgraphsDone
    /\ Len(result.items) >= 2
    /\ \E i \in 1 .. Len(result.items) : Len(result.items[i]) >= 2

(***************************************************************************)
(* Properties of add_node and add_edge, under Spec.                        *)
(***************************************************************************)
\* C8: every stored edge has its start and its end among the keys of nodes,
\* and every bucket key is a key of nodes.
C8_EdgesJoinStoredNodes ==
    /\ DOMAIN edges \subseteq Keys(nodes)
    /\ \A e \in StoredEdges : e.start \in Keys(nodes) /\ e.end \in Keys(nodes)

\* edges are stored in two buckets while some name is not a stored node
C8_Witness ==
    /\ Cardinality(DOMAIN edges) >= 2
    /\ Keys(nodes) # Names

\* C9: in every state, add_edge with a start or an end that is not a stored
\* node name leaves num_edges, every bucket, the bucket keys, nodes and
\* num_nodes as they are.
C9_RejectedEdgeChangesNothing ==
    \A edge \in EdgeArgs :
        edge.start \notin Keys(nodes) \/ edge.end \notin Keys(nodes) =>
            LET G == AddEdge(Graph, edge)
            IN /\ G.num_edges = num_edges
               /\ DOMAIN G.edges = DOMAIN edges
               /\ \A k \in DOMAIN edges : G.edges[k] = edges[k]
               /\ G.nodes = nodes
               /\ G.num_nodes = num_nodes

\* a graph that stores an edge can be offered one with an unknown start and
\* one from a stored start to an unknown end
C9_Witness ==
    /\ num_edges > 0
    /\ \E edge \in EdgeArgs : edge.start \notin Keys(nodes)
    /\ \E edge \in EdgeArgs : edge.start \in Keys(nodes) /\ edge.end \notin Keys(nodes)

\* C10: in every state, add_node without allow_update and with a name that is
\* already stored leaves the stored Node object, the node names, num_nodes,
\* edges and num_edges as they are.
C10_RejectedNodeChangesNothing ==
    \A node \in NodeArgs :
        node.name \in Keys(nodes) =>
            LET G == AddNode(Graph, node, FALSE)
            IN /\ Lookup(G.nodes, node.name) = Lookup(nodes, node.name)
               /\ KeySeq(G.nodes) = KeySeq(nodes)
               /\ G.num_nodes = num_nodes
               /\ G.edges = edges
               /\ G.num_edges = num_edges

\* a graph with edges can be offered a Node object other than the one it
\* stores under that name
C10_Witness ==
    /\ num_edges > 0
    /\ \E node \in NodeArgs :
        node.name \in Keys(nodes) /\ Lookup(nodes, node.name) # node

\* the number of edges stored in the buckets of the keys ks
RECURSIVE StoredIn(_)
StoredIn(ks) ==
    IF ks = {}
    THEN 0
    ELSE LET k == CHOOSE x \in ks : TRUE
         IN Len(edges[k]) + StoredIn(ks \ {k})

\* C11: num_nodes is the number of accepted add_node calls and num_edges the
\* number of accepted add_edge calls; num_edges is the number of edges stored
\* in all buckets; num_nodes is the number of stored names as long as no
\* overwrite of a stored name was accepted.
C11_CountersCountAcceptedInserts ==
    /\ num_nodes = accepted.nodes
    /\ num_edges = accepted.edges
    /\ num_edges = StoredIn(DOMAIN edges)
    /\ accepted.overwrites = 0 => num_nodes = Cardinality(Keys(nodes))

\* several nodes and edges have been inserted, in two buckets, no overwrite
C11_Witness ==
    /\ accepted.overwrites = 0
    /\ num_nodes >= 2
    /\ num_edges >= 2
    /\ Cardinality(DOMAIN edges) >= 2

\* C12: in every state, add_node with allow_update and a name that is already
\* stored puts the new Node under that name, keeps the names and the edges,
\* and adds exactly 1 to num_nodes, which then exceeds the number of stored
\* nodes.
C12_OverwriteReplacesAndCounts ==
    \A node \in NodeArgs :
        node.name \in Keys(nodes) =>
            LET G == AddNode(Graph, node, TRUE)
            IN /\ Lookup(G.nodes, node.name) = node
               /\ KeySeq(G.nodes) = KeySeq(nodes)
               /\ G.edges = edges
               /\ G.num_edges = num_edges
               /\ G.num_nodes = num_nodes + 1
               /\ G.num_nodes > Cardinality(Keys(G.nodes))

\* an overwrite has been accepted: another Node object is stored under a
\* name, and num_nodes exceeds the number of stored nodes
C12_Witness ==
    /\ accepted.overwrites > 0
    /\ \E i \in 1 .. Len(nodes) : nodes[i].obj = "o2"
    /\ num_nodes > Len(nodes)
    /\ num_edges > 0

(***************************************************************************)
(* Further properties of show_subgraphs, under SubgraphSpec.               *)
(***************************************************************************)
\* the groups of a returned list as a set of sets of names
Partition(groups) == {Range(groups[i]) : i \in 1 .. Len(groups)}

\* the orders the stored nodes can have been added in
Orders ==
    {[i \in 1 .. Len(names) |-> Lookup(nodes, names[i])] :
        names \in {s \in DistinctSeqsUpTo(Names, MaxNodes) : Range(s) = Keys(nodes)}}

\* C18: the partition show_subgraphs returns is the one it returns for the
\* same nodes added in any other order, the edges being the same.
C18_PartitionIgnoresNodeOrder ==
    SubgraphsDone =>
        \A order \in Orders :
            Partition(ShowSubgraphs([Graph EXCEPT !.nodes = order])) = Partition(result.items)

\* C19: two names show_subgraphs places in one group are connected in the
\* underlying undirected graph.
C19_GroupsNeverOverMerge ==
    SubgraphsDone =>
        \A a \in Names, b \in Names : SameGroup(a, b) => WeaklyConnected(a, b)

\* one group holds two names and a third name is in another group
C19_Witness ==
    /\ SubgraphsDone
    /\ \E a \in Names, b \in Names, c \in Names :
        /\ a # b
        /\ SameGroup(a, b)
        /\ c \in Keys(nodes)
        /\ ~SameGroup(a, c)

(***************************************************************************)
(* The worklist and the witness of path_exists, under PathSpec.            *)
(***************************************************************************)
\* no name occurs twice in p
NoRepeats(p) == \A i \in 1 .. Len(p), j \in 1 .. Len(p) : p[i] = p[j] => i = j

\* C15: while path_exists runs, every path in the worklist has no repeated
\* name, has start as its last element, and each name of it is reached by a
\* stored edge from the name behind it; when start is a stored node the path
\* is no longer than the number of stored nodes.
C15_WorklistPathsAreSimple ==
    pc = "loop" =>
        \A k \in 1 .. Len(queue) :
            LET p == queue[k]
            IN /\ NoRepeats(p)
               /\ Len(p) >= 1
               /\ p[Len(p)] = call.start
               /\ \A i \in 1 .. (Len(p) - 1) : Edge(p[i + 1], p[i]) \in StoredEdges
               /\ call.start \in Keys(nodes) => Len(p) <= Cardinality(Keys(nodes))

\* the worklist holds a path through every one of three or more stored nodes
C15_Witness ==
    /\ pc = "loop"
    /\ \E k \in 1 .. Len(queue) :
        Len(queue[k]) = Cardinality(Keys(nodes)) /\ Len(queue[k]) >= 3

RECURSIVE Layers(_, _, _)
Layers(S, d, b) ==
    IF b \in Succ(S)
    THEN d + 1
    ELSE IF Succ(S) \subseteq S
    THEN 0
    ELSE Layers(S \cup Succ(S), d + 1, b)

\* the least number of edges of a directed path from a to b
Dist(a, b) == Layers({a}, 0, b)

\* C17: the path returned by path_exists(start, end), with the edge from its
\* last name to end, has the least number of edges of any directed path from
\* start to end.  Checked under DetourSpec.
C17_ReturnedPathIsShortest ==
    PathDone /\ result.kind = "list" =>
        Len(result.items) = Dist(call.start, call.end)

\* a path of two edges has been returned although a repeat-free path of three
\* edges leads from start to end as well
C17_Witness ==
    /\ PathDone
    /\ result.kind = "list"
    /\ Len(result.items) = 2
    /\ \E a \in Names, b \in Names :
        /\ a # b /\ a # call.start /\ b # call.start
        /\ a # call.end /\ b # call.end
        /\ Edge(call.start, a) \in StoredEdges
        /\ Edge(a, b) \in StoredEdges
        /\ Edge(b, call.end) \in StoredEdges

(***************************************************************************)
(* Properties of the trees, under TreeSpec.                                *)
(***************************************************************************)
\* the values stored in tree t
RECURSIVE ValuesOf(_)
ValuesOf(t) ==
    IF t.kind = "Leaf"
    THEN IF t.has_value THEN {t.value[1]} ELSE {}
    ELSE {t.value} \cup ValuesOf(t.left) \cup ValuesOf(t.right)

\* the BST property of the module docstring: for every branch b, all values
\* in b.left <= b.value and all values in b.right >= b.value
RECURSIVE DocBst(_)
DocBst(t) ==
    t.kind = "Branch" =>
        /\ \A v \in ValuesOf(t.left) : v <= t.value
        /\ \A v \in ValuesOf(t.right) : v >= t.value
        /\ DocBst(t.left)
        /\ DocBst(t.right)

\* C13: if is_bst() is true before insert(value), it is true after it.
C13_InsertPreservesIsBst ==
    pc = "done" /\ call.op = "insert" /\ IsBst(call.self, None, None)
        => TreeIsBst(Tree)

\* C14: BinarySearchTree(head) passes its assert, satisfies is_bst() and has
\* as many elements as head has values.
C14_BinarySearchTreeIsBuilt ==
    call.op = "BinarySearchTree" =>
        /\ pc # "raised"
        /\ TreeIsBst(Tree)
        /\ num_elements = Size(call.head)

\* C20: is_bst() returns true exactly when the tree has the BST property of
\* the module docstring.
C20_IsBstMatchesDefinition ==
    pc = "done" /\ call.op = "is_bst" => (result.value <=> DocBst(root))
====
